---- MODULE Spec2Model ----
(***************************************************************************)
(* Registry router (package registry): the advert aggregator, inbound      *)
(* advert processing and the Advertise/Close lifecycle of type rtr.        *)
(***************************************************************************)
EXTENDS Integers, Sequences, FiniteSets, TLC

VARIABLES
    \* Process(advert) against the table
    table,        \* the routing table
    pAdvert,      \* a.Events of the advert handed to Process
    pPc,          \* "ready" before the call, "done" after it returned
    pBefore,      \* the table when Process was called
    pErr,         \* what Process returned
    pApplied,     \* the events Process handed to manageRoute, in order
    \* the aggregation loop of advertiseEvents
    aStrategy,    \* r.options.Advertise
    aAdverts,     \* the adverts map
    aWindow,      \* per fingerprint, the events received since the last tick
    aLastWindow,  \* aWindow as it was when the last tick fired
    aPublished,   \* the adverts handed to publishAdvert, oldest first
    aDrained,     \* the events the last tick collected
    aCount,       \* events received so far
    aTicks,       \* ticks so far
    \* the router's lifecycle: Advertise, Close, Init, the advert engine
    running,      \* r.running
    exit,         \* r.exit: "nil", "open" or "closed"
    advertise,    \* r.options.Advertise
    eventChan,    \* r.eventChan: 0 (nil) or an index of evChans
    evChans,      \* the event channels made so far: [closed]
    chans,        \* the subscriber channels made so far: [buf, closed, first]
    subscribers,  \* r.subscribers: indices of chans
    mu,           \* who holds r.Lock: "free", "Advertise", "Close", or
                  \* "CloseTail" (Close after close(r.eventChan))
    closeWaiting, \* Close() calls blocked at r.Lock()
    calls,        \* calls made so far, per operation
    closeRet,     \* Close() calls that returned, and how the last one did
    advRet,       \* what the last Advertise() returned: [chan, err]
    initPending,  \* goroutines of Init blocked sending on r.initChan
    pubs,         \* the publishAdvert goroutines: [type, events, pc, rem]
    engines,      \* the goroutines Advertise started for advertiseEvents
    nMut,         \* table mutations so far
    nTicks,       \* ticks of the aggregation loop so far
    panicked,     \* a goroutine closed a closed channel
    \* getDomain
    dSrv,         \* the registry service handed to getDomain
    dResult,      \* what getDomain returned, "pending" before the call
    \* one result of the registry watcher through manageRoutes
    mRes,         \* the result: [Action, Service]
    mPc,          \* "ready" before it is handled, "done" after
    mBefore,      \* the table when it was handled
    mOut,         \* [events, err, wiped]: the table events emitted, the error
                  \* returned, the arguments of deleteService when it was called
    \* the refresh and prune loop of start()
    reg,          \* the registry, per service: "full" (listed with its nodes),
                  \* "bare" (listed without nodes) or "gone"
    age,          \* per service, the time since its route was last seen
    tickR,        \* the refresh ticker t1: [phase, pend]
    tickP,        \* the prune ticker t2: [phase, pend]
    syncPc,       \* the loop: "loop" or "done"
    sEvents,      \* the events the table emitted in its last mutation
    missed,       \* the services some refresh so far did not get from the registry
    \* the registry watch loop of start() and watchRegistry
    wlPc,         \* the loop: "select", "opening", "watching", "sleep", "done"
    rw,           \* the watcher of the running watchRegistry: "none", "open",
                  \* "stopped"
    stopper,      \* its stopper goroutine: "none", "spawned" (not yet at its
                  \* select), "waiting" (blocked in it), "done"
    stale,        \* stopper goroutines of calls that returned before they
                  \* reached their select
    gen,          \* the watchers opened so far, modulo 3
    wlErr,        \* errors the loop has logged so far, modulo 2
    \* the default gateway of start()
    gateway,      \* r.options.Gateway ("" when not set)
    gwAge         \* time since the gateway route was last seen by the table

procVars == <<pAdvert, pPc, pBefore, pErr, pApplied>>
lifeVars == <<running, exit, advertise, eventChan, evChans, chans, subscribers,
              mu, closeWaiting, calls, closeRet, advRet,
              initPending, pubs, engines, nMut, nTicks, panicked>>
aggVars == <<aStrategy, aAdverts, aWindow, aLastWindow, aPublished, aDrained,
            aCount, aTicks>>
domVars == <<dSrv, dResult>>
manVars == <<mRes, mPc, mBefore, mOut>>
syncVars == <<reg, age, tickR, tickP, syncPc, sEvents, missed>>
watchVars == <<wlPc, rw, stopper, stale, gen, wlErr>>
gwVars == <<gateway, gwAge>>
vars == <<table, procVars, aggVars, lifeVars, domVars, manVars, syncVars,
          watchVars, gwVars>>

(***************************************************************************)
(* Bounds of the model.                                                    *)
(***************************************************************************)
\* longest advert handed to Process
MaxAdvertEvents == 3
\* table events fed to the aggregation loop in one behaviour
MaxAggEvents == 3
\* ticks of the aggregation loop in one behaviour
MaxAggTicks == 2
\* capacity of a subscriber channel (128 in the code)
SubCap == 1
\* calls, table mutations and ticks together in one behaviour
MaxOps == 5

\* nodes of a registry service handed to getDomain
MaxNodes == 2

\* the refresh and prune periods, in time units of the model (120 s and 10 s
\* by default: the prune ticker fires whenever the refresh ticker does)
RefreshInterval == 2
PruneInterval == 1

\* how many of them may be of one kind
Caps == [Advertise |-> 2, Close |-> 2, Init |-> 1, Mutation |-> 1, Tick |-> 2]

Timestamps == {1, 2}

(***************************************************************************)
(* Routes, events, errors.                                                 *)
(***************************************************************************)
SelfId == "self"
PeerId == "peer-1"

Nil == "nil"
ErrDuplicateRoute == "ErrDuplicateRoute"
ErrRouteNotFound == "ErrRouteNotFound"

\* router.EventType: Create, Delete, Update; any other value prints "unknown"
Create == 0
Delete == 1
Update == 2
BadType == 3
EventTypes == {Create, Delete, Update}

EventTypeString(t) ==
    CASE t = Create -> "create"
      [] t = Delete -> "delete"
      [] t = Update -> "update"
      [] OTHER -> "unknown"

AdvertiseAll == "all"
AdvertiseBest == "best"
AdvertiseLocal == "local"
AdvertiseNone == "none"
Strategies == {AdvertiseAll, AdvertiseBest, AdvertiseLocal, AdvertiseNone}

MkRoute(svc, addr, rid, link, metric) ==
    [Service |-> svc, Address |-> addr, Gateway |-> "", Network |-> "default",
     Router |-> rid, Link |-> link, Metric |-> metric]

\* the fingerprint: the six identity fields (Metric is not part of it)
Hash(r) == <<r.Service, r.Address, r.Gateway, r.Network, r.Router, r.Link>>

SelfRoute == MkRoute("auth", "10.0.0.1", SelfId, "local", 1)
PeerRoute == MkRoute("cart", "10.0.0.2", PeerId, "network", 10)

(***************************************************************************)
(* The routing table: a set of routes, at most one per fingerprint.        *)
(***************************************************************************)
HasRoute(t, r) == \E x \in t : Hash(x) = Hash(r)

TableCreate(t, r) ==
    IF HasRoute(t, r)
    THEN [table |-> t, err |-> ErrDuplicateRoute]
    ELSE [table |-> t \cup {r}, err |-> Nil]

TableUpdate(t, r) ==
    [table |-> {x \in t : Hash(x) # Hash(r)} \cup {r}, err |-> Nil]

TableDelete(t, r) ==
    IF HasRoute(t, r)
    THEN [table |-> {x \in t : Hash(x) # Hash(r)}, err |-> Nil]
    ELSE [table |-> t, err |-> ErrRouteNotFound]

(***************************************************************************)
(* manageRoute: applies action to the table; err is Nil or the wrapped     *)
(* error returned to the caller.                                           *)
(***************************************************************************)
Wrap(res, absorbed) ==
    IF res.err # Nil /\ res.err # absorbed
    THEN [table |-> res.table, err |-> "failed"]
    ELSE [table |-> res.table, err |-> Nil]

manageRouteNoAbsorb(t, route, action) ==
    CASE action = "create" -> Wrap(TableCreate(t, route), Nil)
      [] action = "delete" -> Wrap(TableDelete(t, route), Nil)
      [] action = "update" -> Wrap(TableUpdate(t, route), Nil)
      [] OTHER -> [table |-> t, err |-> "unknown action"]

manageRoute(t, route, action) ==
    CASE action = "create" -> Wrap(TableCreate(t, route), ErrDuplicateRoute)
      [] action = "delete" -> Wrap(TableDelete(t, route), ErrRouteNotFound)
      [] action = "update" -> Wrap(TableUpdate(t, route), Nil)
      [] OTHER -> [table |-> t, err |-> "unknown action"]

(***************************************************************************)
(* Process: sort.Slice orders the copied events by Timestamp (it is not a  *)
(* stable sort: events of equal Timestamp end in any order), then each     *)
(* event not originated by this router goes through manageRoute.           *)
(***************************************************************************)
Before(a, b) == a.Timestamp < b.Timestamp

Reorder(events, p) == [i \in 1..Len(events) |-> events[p[i]]]

IsSorted(events) ==
    \A i, j \in 1..Len(events) : i < j => ~Before(events[j], events[i])

SortedOrdersUnsorted(events) == {events}

SortedOrders(events) ==
    IF events = <<>> THEN {<<>>}
    ELSE {s \in {Reorder(events, p) : p \in Permutations(1..Len(events))} :
            IsSorted(s)}

RECURSIVE ApplyEventsNoSkip(_, _, _, _)
ApplyEventsNoSkip(t, id, events, applied) ==
    IF events = <<>> THEN [table |-> t, err |-> Nil, applied |-> applied]
    ELSE LET event == Head(events)
             res == manageRoute(t, event.Route, EventTypeString(event.Type))
         IN  IF res.err # Nil
             THEN [table |-> res.table, err |-> "failed applying action",
                   applied |-> Append(applied, event)]
             ELSE ApplyEventsNoSkip(res.table, id, Tail(events),
                                    Append(applied, event))

\* applied: the events handed to manageRoute, in order (the last one is the
\* failing event when err is not Nil)
RECURSIVE ApplyEvents(_, _, _, _)
ApplyEvents(t, id, events, applied) ==
    IF events = <<>> THEN [table |-> t, err |-> Nil, applied |-> applied]
    ELSE LET event == Head(events) IN
         IF event.Route.Router = id
         THEN ApplyEvents(t, id, Tail(events), applied)
         ELSE LET res == manageRoute(t, event.Route, EventTypeString(event.Type))
              IN  IF res.err # Nil
                  THEN [table |-> res.table, err |-> "failed applying action",
                        applied |-> Append(applied, event)]
                  ELSE ApplyEvents(res.table, id, Tail(events),
                                   Append(applied, event))

(***************************************************************************)
(* The aggregation loop of advertiseEvents.  adverts maps a fingerprint to *)
(* the pending event.                                                      *)
(***************************************************************************)
NilEvent == [Type |-> BadType, Timestamp |-> 0, Route |-> MkRoute("", "", "", "", 0)]

Admits(strategy, route) ==
    /\ strategy # AdvertiseNone
    /\ ~(strategy = AdvertiseLocal /\ route.Link # "local")

Put(adv, h, e) == [k \in (DOMAIN adv) \cup {h} |-> IF k = h THEN e ELSE adv[k]]

AggregateEventLatest(adv, strategy, e) ==
    IF e = NilEvent \/ ~Admits(strategy, e.Route) THEN adv
    ELSE Put(adv, Hash(e.Route), e)

\* case e := <-r.eventChan
AggregateEvent(adv, strategy, e) ==
    IF e = NilEvent THEN adv
    ELSE IF strategy = AdvertiseNone THEN adv
    ELSE IF strategy = AdvertiseLocal /\ e.Route.Link # "local" THEN adv
    ELSE LET hash == Hash(e.Route) IN
         IF hash \notin DOMAIN adv THEN Put(adv, hash, e)
         ELSE LET prev == adv[hash]
                  \* "ev = e" rebinds the loop's local ev; the map keeps prev
                  ev == IF prev.Type # e.Type THEN e ELSE prev
              IN  adv

\* the range over adverts without delete(adverts, key)
CollectAdvertsKeep(adv, strategy) ==
    [adverts |-> adv,
     events |-> {adv[k] : k \in {x \in DOMAIN adv :
                    ~(strategy = AdvertiseLocal /\ adv[x].Route.Link # "local")}}]

\* case <-ticker.C, the range over adverts: the events to publish and the map
\* left behind
CollectAdverts(adv, strategy) ==
    LET keys == {k \in DOMAIN adv :
                    ~(strategy = AdvertiseLocal /\ adv[k].Route.Link # "local")}
    IN  [adverts |-> [k \in (DOMAIN adv) \ keys |-> adv[k]],
         events |-> {adv[k] : k \in keys}]

\* case <-ticker.C with one value of the strategy
DrainAdverts(adv, strategy) ==
    IF strategy = AdvertiseNone THEN [adverts |-> adv, events |-> {}]
    ELSE CollectAdverts(adv, strategy)

(***************************************************************************)
(* SpecProcess: one Process(advert) call on a table.                       *)
(***************************************************************************)
ProcRoutes == {SelfRoute, PeerRoute}
\* events of a peer of every type, and events this router originated (they
\* are skipped before their type is looked at)
ProcEvents ==
    [Type : EventTypes \cup {BadType}, Timestamp : Timestamps, Route : {PeerRoute}]
    \cup [Type : {Create, BadType}, Timestamp : Timestamps, Route : {SelfRoute}]

RECURSIVE SeqsUpTo(_, _)
SeqsUpTo(S, n) ==
    IF n = 0 THEN {<<>>}
    ELSE LET shorter == SeqsUpTo(S, n - 1)
         IN  shorter \cup {Append(q, x) : q \in {r \in shorter : Len(r) = n - 1}, x \in S}

AggIdle ==
    /\ aStrategy = AdvertiseAll
    /\ aAdverts = <<>>
    /\ aWindow = <<>>
    /\ aLastWindow = <<>>
    /\ aPublished = <<>>
    /\ aDrained = {}
    /\ aCount = 0
    /\ aTicks = 0

LifeIdle ==
    /\ running = FALSE
    /\ exit = "nil"
    /\ advertise = AdvertiseAll
    /\ eventChan = 0
    /\ evChans = <<>>
    /\ chans = <<>>
    /\ subscribers = {}
    /\ mu = "free"
    /\ closeWaiting = 0
    /\ calls = [op \in {"Advertise", "Close", "Init"} |-> 0]
    /\ closeRet = [count |-> 0, branch |-> "none", subs |-> 0]
    /\ advRet = [chan |-> 0, err |-> Nil]
    /\ initPending = 0
    /\ pubs = <<>>
    /\ engines = <<>>
    /\ nMut = 0
    /\ nTicks = 0
    /\ panicked = FALSE

DomIdle ==
    /\ dSrv = [Metadata |-> [nil |-> TRUE, kv |-> {}], Nodes |-> <<>>]
    /\ dResult = "pending"

NoWipe == [service |-> "", network |-> "", called |-> FALSE]

ManIdle ==
    /\ mRes = [Action |-> "", Service |-> [nil |-> TRUE, Name |-> "",
                                          Metadata |-> [nil |-> TRUE, kv |-> {}],
                                          Nodes |-> <<>>]]
    /\ mPc = "idle"
    /\ mBefore = {}
    /\ mOut = [events |-> <<>>, err |-> Nil, wiped |-> NoWipe]

SyncNames == {"auth", "cart"}

SyncIdle ==
    /\ reg = [n \in SyncNames |-> "gone"]
    /\ age = [n \in SyncNames |-> 0]
    /\ tickR = [phase |-> 0, pend |-> 0]
    /\ tickP = [phase |-> 0, pend |-> 0]
    /\ syncPc = "idle"
    /\ sEvents = {}
    /\ missed = {}

WatchIdle ==
    /\ wlPc = "idle"
    /\ rw = "none"
    /\ stopper = "none"
    /\ stale = 0
    /\ gen = 0
    /\ wlErr = 0

GwIdle ==
    /\ gateway = ""
    /\ gwAge = 0

ProcIdle ==
    /\ pAdvert = <<>>
    /\ pPc = "idle"
    /\ pBefore = {}
    /\ pErr = Nil
    /\ pApplied = <<>>

InitProcess ==
    /\ table \in SUBSET ProcRoutes
    /\ pAdvert \in SeqsUpTo(ProcEvents, MaxAdvertEvents)
    /\ pPc = "ready"
    /\ pBefore = {}
    /\ pErr = Nil
    /\ pApplied = <<>>
    /\ AggIdle
    /\ LifeIdle
    /\ DomIdle
    /\ ManIdle
    /\ SyncIdle
    /\ WatchIdle
    /\ GwIdle

Process ==
    /\ pPc = "ready"
    /\ \E events \in SortedOrders(pAdvert) :
         LET res == ApplyEvents(table, SelfId, events, <<>>) IN
         /\ table' = res.table
         /\ pErr' = res.err
         /\ pApplied' = res.applied
    /\ pBefore' = table
    /\ pPc' = "done"
    /\ UNCHANGED <<pAdvert, aggVars, lifeVars, domVars, manVars, syncVars, watchVars, gwVars>>

NextProcess == Process

SpecProcess == InitProcess /\ [][NextProcess]_vars

(***************************************************************************)
(* SpecAgg: the select loop of advertiseEvents fed with table events.      *)
(***************************************************************************)
AggRoutes == {SelfRoute, PeerRoute}
AggHashes == {Hash(r) : r \in AggRoutes}

InitAgg ==
    /\ aStrategy \in Strategies
    /\ aAdverts = <<>>
    /\ aWindow = [h \in AggHashes |-> <<>>]
    /\ aLastWindow = [h \in AggHashes |-> <<>>]
    /\ aPublished = <<>>
    /\ aDrained = {}
    /\ aCount = 0
    /\ aTicks = 0
    /\ table = {}
    /\ ProcIdle
    /\ LifeIdle
    /\ DomIdle
    /\ ManIdle
    /\ SyncIdle
    /\ WatchIdle
    /\ GwIdle

\* case e := <-r.eventChan, for a table event
AggEvent ==
    /\ aCount < MaxAggEvents
    /\ \E t \in EventTypes, r \in AggRoutes :
         LET e == [Type |-> t, Timestamp |-> aCount + 1, Route |-> r] IN
         /\ aAdverts' = AggregateEvent(aAdverts, aStrategy, e)
         /\ aWindow' = [aWindow EXCEPT ![Hash(r)] = Append(@, e)]
    /\ aCount' = aCount + 1
    /\ UNCHANGED <<aStrategy, aLastWindow, aPublished, aDrained, aTicks, table,
                   procVars, lifeVars, domVars, manVars, syncVars, watchVars, gwVars>>

\* case <-ticker.C
AggTick ==
    /\ aTicks < MaxAggTicks
    /\ LET d == DrainAdverts(aAdverts, aStrategy) IN
       /\ aAdverts' = d.adverts
       /\ aDrained' = d.events
       /\ aPublished' = IF d.events # {} THEN Append(aPublished, d.events)
                        ELSE aPublished
    /\ aLastWindow' = aWindow
    /\ aWindow' = [h \in AggHashes |-> <<>>]
    /\ aTicks' = aTicks + 1
    /\ UNCHANGED <<aStrategy, aCount, table, procVars, lifeVars, domVars, manVars, syncVars, watchVars, gwVars>>

NextAgg == AggEvent \/ AggTick

SpecAgg == InitAgg /\ [][NextAgg]_vars

(***************************************************************************)
(* SpecDomain: getDomain on a registry service.  A metadata map is nil or  *)
(* a set of key/value pairs with one value per key.                        *)
(***************************************************************************)
DefaultDomain == "default"
NilMap == [nil |-> TRUE, kv |-> {}]
MkMap(kv) == [nil |-> FALSE, kv |-> kv]

\* m[k] of Go: the zero value "" when m is nil or has no key k
MapGet(mp, k) ==
    IF \E p \in mp.kv : p[1] = k
    THEN (CHOOSE p \in mp.kv : p[1] = k)[2]
    ELSE ""

MapHas(mp, k) == \E p \in mp.kv : p[1] = k

StrLen(str) == IF str = "" THEN 0 ELSE 1

getDomain(srv) ==
    IF ~srv.Metadata.nil /\ StrLen(MapGet(srv.Metadata, "domain")) > 0
    THEN MapGet(srv.Metadata, "domain")
    ELSE IF Len(srv.Nodes) > 0 /\ ~srv.Nodes[1].Metadata.nil
    THEN MapGet(srv.Nodes[1].Metadata, "domain")
    ELSE DefaultDomain

\* the metadata maps of services and of nodes
MetaMaps(domain) ==
    {NilMap, MkMap({}), MkMap({<<"region", "eu">>}), MkMap({<<"domain", "">>}),
     MkMap({<<"domain", domain>>}),
     MkMap({<<"domain", domain>>, <<"region", "eu">>})}

DomNodes == {[Address |-> "10.0.0.1", Metadata |-> mp] : mp \in MetaMaps("dev")}

DomServices ==
    {[Metadata |-> mp, Nodes |-> ns] :
        mp \in MetaMaps("prod"), ns \in SeqsUpTo(DomNodes, MaxNodes)}

InitDomain ==
    /\ dSrv \in DomServices
    /\ dResult = "pending"
    /\ table = {}
    /\ ProcIdle
    /\ AggIdle
    /\ LifeIdle
    /\ ManIdle
    /\ SyncIdle
    /\ WatchIdle
    /\ GwIdle

\* domain := getDomain(service)
Resolve ==
    /\ dResult = "pending"
    /\ dResult' = getDomain(dSrv)
    /\ UNCHANGED <<dSrv, table, procVars, aggVars, lifeVars, manVars, syncVars, watchVars, gwVars>>

NextDomain == Resolve

SpecDomain == InitDomain /\ [][NextDomain]_vars

(***************************************************************************)
(* Spec: the router after NewRouter.  Callers invoke Advertise, Close,     *)
(* Init, Options and Table; Advertise starts the announce publisher and    *)
(* the advert engine; the table is mutated by its other users.             *)
(***************************************************************************)
NoChan == 0
Announce == "announce"
RouteUpdate == "update"
LifeRoutes == {SelfRoute, PeerRoute}
\* the strategies that differ on these routes (AdvertiseBest selects what
\* AdvertiseAll does when every service has one route)
LifeStrategies == {AdvertiseAll, AdvertiseLocal, AdvertiseNone}

\* table.Query with a strategy
TableQuery(t, strategy) ==
    CASE strategy = AdvertiseAll -> t
      [] strategy = AdvertiseLocal -> {r \in t : r.Link = "local"}
      [] strategy = AdvertiseBest ->
            {r \in t : \A x \in t : x.Service = r.Service => r.Metric <= x.Metric}
      [] OTHER -> {}

flushRouteEvents(t, strategy, evType, now) ==
    {[Type |-> evType, Timestamp |-> now, Route |-> r] : r \in TableQuery(t, strategy)}

\* go r.publishAdvert(advType, events): the advert carries r.options.Id
Spawn(ps, advType, events) ==
    Append(ps, [type |-> advType, events |-> events, id |-> SelfId,
                pc |-> "start", rem |-> <<>>])

\* the publishers inside r.sub.RLock
SubReaders == {p \in 1..Len(pubs) : pubs[p].pc = "loop"}

Orders(S) ==
    {q \in SeqsUpTo(S, Cardinality(S)) :
        Len(q) = Cardinality(S) /\ \A x \in S : \E i \in 1..Len(q) : q[i] = x}

\* calls, table mutations and ticks so far
Ops == calls["Advertise"] + calls["Close"] + calls["Init"] + nMut + nTicks

Init ==
    /\ running \in BOOLEAN
    /\ exit = IF running THEN "open" ELSE "nil"
    /\ advertise \in LifeStrategies
    /\ table = LifeRoutes
    /\ eventChan = NoChan
    /\ evChans = <<>>
    /\ chans = <<>>
    /\ subscribers = {}
    /\ mu = "free"
    /\ closeWaiting = 0
    /\ calls = [op \in {"Advertise", "Close", "Init"} |-> 0]
    /\ closeRet = [count |-> 0, branch |-> "none", subs |-> 0]
    /\ advRet = [chan |-> NoChan, err |-> Nil]
    /\ initPending = 0
    /\ pubs = <<>>
    /\ engines = <<>>
    /\ nMut = 0
    /\ nTicks = 0
    /\ panicked = FALSE
    /\ ProcIdle
    /\ AggIdle
    /\ DomIdle
    /\ ManIdle
    /\ SyncIdle
    /\ WatchIdle
    /\ GwIdle

AlreadyAdvertisingNever(ch) == FALSE

\* "already advertising": r.eventChan != nil
AlreadyAdvertising(ch) == ch # NoChan

\* r.subscribers[uuid] = advertChan, and on the first call the flush, the
\* event channel, the announce publisher and the engine goroutine
Register ==
    /\ chans' = Append(chans, [buf |-> <<>>, closed |-> FALSE, first |-> "none"])
    /\ subscribers' = subscribers \cup {Len(chans) + 1}
    /\ advRet' = [chan |-> Len(chans) + 1, err |-> Nil]
    /\ IF AlreadyAdvertising(eventChan)
       THEN UNCHANGED <<eventChan, evChans, pubs, engines>>
       ELSE /\ evChans' = Append(evChans, [closed |-> FALSE])
            /\ eventChan' = Len(evChans) + 1
            /\ pubs' = Spawn(pubs, Announce,
                             flushRouteEvents(table, advertise, Create, nMut))
            /\ engines' = Append(engines,
                    [pc |-> "spawned", adverts |-> <<>>, wbuf |-> <<>>,
                     fwd |-> "none", held |-> NilEvent])

\* Advertise when no publisher is inside r.sub.RLock: r.Lock(), r.sub.Lock()
\* and the body run through
Advertise ==
    /\ calls["Advertise"] < Caps.Advertise
    /\ Ops < MaxOps
    /\ mu = "free"
    /\ SubReaders = {}
    /\ calls' = [calls EXCEPT !["Advertise"] = @ + 1]
    /\ Register
    /\ UNCHANGED <<running, exit, advertise, mu, closeWaiting, closeRet,
                   initPending, nMut, nTicks, panicked, table, procVars, aggVars, domVars, manVars, syncVars, watchVars, gwVars>>

\* Advertise while a publisher is inside r.sub.RLock: it takes r.Lock() and
\* goes on to r.sub.Lock(), where it waits for the readers.  A publisher may
\* still get r.sub.RLock() between the two calls.
AdvertiseLock ==
    /\ calls["Advertise"] < Caps.Advertise
    /\ Ops < MaxOps
    /\ mu = "free"
    /\ SubReaders # {}
    /\ mu' = "Advertise"
    /\ calls' = [calls EXCEPT !["Advertise"] = @ + 1]
    /\ UNCHANGED <<running, exit, advertise, eventChan, evChans, chans, subscribers,
                   closeWaiting, closeRet, advRet, initPending, pubs,
                   engines, nMut, nTicks, panicked, table, procVars, aggVars, domVars, manVars, syncVars, watchVars, gwVars>>

\* the waiting Advertise gets r.sub.Lock() and runs to its return
AdvertiseBody ==
    /\ mu = "Advertise"
    /\ SubReaders = {}
    /\ Register
    /\ mu' = "free"
    /\ UNCHANGED <<running, exit, advertise, closeWaiting, calls, closeRet,
                   initPending, nMut, nTicks, panicked, table, procVars, aggVars, domVars, manVars, syncVars, watchVars, gwVars>>

\* a caller invokes Close and waits for r.Lock()
CloseCall ==
    /\ calls["Close"] < Caps.Close
    /\ closeWaiting = 0
    /\ Ops < MaxOps
    /\ calls' = [calls EXCEPT !["Close"] = @ + 1]
    /\ closeWaiting' = closeWaiting + 1
    /\ UNCHANGED <<running, exit, advertise, eventChan, evChans, chans, subscribers,
                   mu, closeRet, advRet, initPending, pubs, engines,
                   nMut, nTicks, panicked, table, procVars, aggVars, domVars, manVars, syncVars, watchVars, gwVars>>

CloseBranchNoCheck(ex, run) == "close"

\* the select of Close: return at once, or close the exit channel
CloseBranch(ex, run) ==
    IF ex = "closed" THEN "return"
    ELSE IF ~run THEN "return"
    ELSE "close"

\* close(r.eventChan) when it is not nil
CloseEventChan(evs, ch) ==
    IF ch = NoChan THEN evs ELSE [evs EXCEPT ![ch].closed = TRUE]

CloseSubscribersKeepOpen(chs, subs) == chs

\* close(sub) for every subscriber
CloseSubscribers(chs, subs) ==
    [c \in 1..Len(chs) |-> IF c \in subs THEN [chs[c] EXCEPT !.closed = TRUE]
                           ELSE chs[c]]

\* closing a closed channel panics
DoubleClose(evs, ch, chs, subs) ==
    \/ (ch # NoChan /\ evs[ch].closed)
    \/ \E c \in subs : chs[c].closed

\* Close from r.Lock() through its select.  The drain that follows
\* close(r.exit) finds no sender: eventChan is unbuffered and every sender
\* selects on r.exit too, so closing exit has released it.
CloseEnter ==
    /\ closeWaiting > 0
    /\ mu = "free"
    /\ closeWaiting' = closeWaiting - 1
    /\ LET branch == CloseBranch(exit, running) IN
       IF branch = "return"
       THEN /\ closeRet' = [count |-> closeRet.count + 1, branch |-> "return",
                            subs |-> Cardinality(subscribers)]
            /\ UNCHANGED <<exit, mu, panicked>>
       ELSE /\ exit' = "closed"
            /\ mu' = "Close"
            /\ panicked' = (panicked \/ exit = "closed")
            /\ UNCHANGED closeRet
    /\ UNCHANGED <<running, eventChan, evChans, advertise, chans, subscribers, calls, advRet,
                   initPending, pubs, engines, nMut, nTicks, table, procVars, aggVars, domVars, manVars, syncVars, watchVars, gwVars>>

\* Close from r.sub.Lock() through close(r.eventChan)
CloseSubs ==
    /\ mu = "Close"
    /\ SubReaders = {}
    /\ chans' = CloseSubscribers(chans, subscribers)
    /\ subscribers' = {}
    /\ evChans' = CloseEventChan(evChans, eventChan)
    /\ panicked' = (panicked \/ DoubleClose(evChans, eventChan, chans, subscribers))
    /\ mu' = "CloseTail"
    /\ closeRet' = [closeRet EXCEPT !.subs = Cardinality(subscribers)]
    /\ UNCHANGED <<running, exit, eventChan, advertise, closeWaiting, calls, advRet,
                   initPending, pubs, engines, nMut, nTicks, table, procVars, aggVars, domVars, manVars, syncVars, watchVars, gwVars>>

\* Close from r.eventChan = nil to its return
CloseFinish ==
    /\ mu = "CloseTail"
    /\ eventChan' = NoChan
    /\ running' = FALSE
    /\ mu' = "free"
    /\ closeRet' = [closeRet EXCEPT !.count = @ + 1, !.branch = "close"]
    /\ UNCHANGED <<exit, evChans, chans, subscribers, advertise, closeWaiting,
                   calls, advRet, initPending, pubs, engines, nMut, nTicks,
                   panicked, table, procVars, aggVars, domVars, manVars,
                   syncVars, watchVars, gwVars>>

\* Init(opts...): sets the options and starts a sender on r.initChan
InitCall ==
    /\ calls["Init"] < Caps.Init
    /\ Ops < MaxOps
    /\ mu = "free"
    /\ \E st \in LifeStrategies : advertise' = st
    /\ initPending' = initPending + 1
    /\ calls' = [calls EXCEPT !["Init"] = @ + 1]
    /\ UNCHANGED <<running, exit, eventChan, evChans, chans, subscribers, mu,
                   closeWaiting, closeRet, advRet, pubs, engines,
                   nMut, nTicks, panicked, table, procVars, aggVars, domVars, manVars, syncVars, watchVars, gwVars>>

\* Options(): a copy of r.options under r.RLock
OptionsCall ==
    /\ mu = "free"
    /\ UNCHANGED vars

\* Table(): the table handle under r.Lock
TableCall ==
    /\ mu = "free"
    /\ UNCHANGED vars

\* publishAdvert: r.sub.RLock() and the start of the range over
\* r.subscribers (a map: the order is any)
PubStart(p) ==
    /\ pubs[p].pc = "start"
    /\ \E order \in Orders(subscribers) :
         pubs' = [pubs EXCEPT ![p].rem = order,
                              ![p].pc = IF order = <<>> THEN "done" ELSE "loop"]
    /\ UNCHANGED <<running, exit, advertise, eventChan, evChans, chans, subscribers,
                   mu, closeWaiting, calls, closeRet, advRet,
                   initPending, engines, nMut, nTicks, panicked, table, procVars,
                   aggVars, domVars, manVars, syncVars, watchVars, gwVars>>

\* publishAdvert: case sub <- a (r.sub.RUnlock() after the last one)
PubSend(p) ==
    /\ pubs[p].pc = "loop"
    /\ LET sub == Head(pubs[p].rem) IN
       /\ Len(chans[sub].buf) < SubCap
       /\ chans' = [chans EXCEPT
                      ![sub].buf = Append(@, p),
                      ![sub].first = IF @ = "none" THEN pubs[p].type ELSE @]
    /\ pubs' = [pubs EXCEPT ![p].rem = Tail(@),
                            ![p].pc = IF Tail(pubs[p].rem) = <<>> THEN "done"
                                      ELSE "loop"]
    /\ UNCHANGED <<running, exit, advertise, eventChan, evChans, subscribers, mu,
                   closeWaiting, calls, closeRet, advRet, initPending,
                   engines, nMut, nTicks, panicked, table, procVars, aggVars, domVars, manVars, syncVars, watchVars, gwVars>>

\* publishAdvert: case <-r.exit: r.sub.RUnlock(), return
PubAbort(p) ==
    /\ pubs[p].pc = "loop"
    /\ exit = "closed"
    /\ pubs' = [pubs EXCEPT ![p].rem = <<>>, ![p].pc = "done"]
    /\ UNCHANGED <<running, exit, advertise, eventChan, evChans, chans, subscribers,
                   mu, closeWaiting, calls, closeRet, advRet,
                   initPending, engines, nMut, nTicks, panicked, table, procVars,
                   aggVars, domVars, manVars, syncVars, watchVars, gwVars>>

\* the consumer of a subscriber channel reads one advert
Consume(c) ==
    /\ chans[c].buf # <<>>
    /\ chans' = [chans EXCEPT ![c].buf = Tail(@)]
    /\ UNCHANGED <<running, exit, advertise, eventChan, evChans, subscribers, mu,
                   closeWaiting, calls, closeRet, advRet, initPending,
                   pubs, engines, nMut, nTicks, panicked, table, procVars, aggVars, domVars, manVars, syncVars, watchVars, gwVars>>

\* watchTable: w.Next() returns as soon as the watcher holds an event, and the
\* forwarder then waits in its select with that event
watchTableNext(e) ==
    IF e.fwd = "next" /\ e.wbuf # <<>>
    THEN [e EXCEPT !.held = Head(e.wbuf), !.wbuf = Tail(e.wbuf), !.fwd = "send"]
    ELSE e

\* the goroutine of Advertise: select on r.exit, else advertiseEvents up to
\* its loop (the table watcher is registered, the forwarder started)
EngineStart(i) ==
    /\ engines[i].pc = "spawned"
    /\ engines' = IF exit = "closed"
                  THEN [engines EXCEPT ![i].pc = "done"]
                  ELSE [engines EXCEPT ![i].pc = "loop", ![i].fwd = "next"]
    /\ UNCHANGED <<running, exit, advertise, eventChan, evChans, chans, subscribers,
                   mu, closeWaiting, calls, closeRet, advRet,
                   initPending, pubs, nMut, nTicks, panicked, table, procVars,
                   aggVars, domVars, manVars, syncVars, watchVars, gwVars>>

\* advertiseEvents: case <-ticker.C and its test of r.options.Advertise, which
\* the loop reads without r.Lock
EngineTick(i) ==
    /\ engines[i].pc = "loop"
    /\ nTicks < Caps.Tick
    /\ Ops < MaxOps
    /\ nTicks' = nTicks + 1
    /\ engines' = [engines EXCEPT
                     ![i].pc = IF advertise = AdvertiseNone THEN "loop" ELSE "drain"]
    /\ UNCHANGED <<running, exit, advertise, eventChan, evChans, chans, subscribers,
                   mu, closeWaiting, calls, closeRet, advRet, pubs,
                   initPending, nMut, panicked, table, procVars, aggVars, domVars, manVars, syncVars, watchVars, gwVars>>

\* advertiseEvents: the range over adverts, which reads r.options.Advertise
\* again, and go r.publishAdvert
EngineDrain(i) ==
    /\ engines[i].pc = "drain"
    /\ LET d == CollectAdverts(engines[i].adverts, advertise) IN
       /\ engines' = [engines EXCEPT ![i].adverts = d.adverts, ![i].pc = "loop"]
       /\ pubs' = IF d.events # {} THEN Spawn(pubs, RouteUpdate, d.events) ELSE pubs
    /\ UNCHANGED <<running, exit, advertise, eventChan, evChans, chans, subscribers,
                   mu, closeWaiting, calls, closeRet, advRet,
                   initPending, nMut, nTicks, panicked, table, procVars, aggVars, domVars, manVars, syncVars, watchVars, gwVars>>

\* watchTable's r.eventChan <- event meets advertiseEvents' case e := <-r.eventChan
EngineRecv(i) ==
    /\ engines[i].pc = "loop"
    /\ engines[i].fwd = "send"
    /\ eventChan # NoChan
    /\ ~evChans[eventChan].closed
    /\ engines' = [engines EXCEPT
                     ![i] = watchTableNext(
                              [@ EXCEPT !.adverts = AggregateEvent(@, advertise,
                                                                   engines[i].held),
                                        !.fwd = "next",
                                        !.held = NilEvent])]
    /\ UNCHANGED <<running, exit, advertise, eventChan, evChans, chans, subscribers,
                   mu, closeWaiting, calls, closeRet, advRet,
                   initPending, pubs, nMut, nTicks, panicked, table, procVars,
                   aggVars, domVars, manVars, syncVars, watchVars, gwVars>>

\* advertiseEvents: case <-r.exit
EngineExit(i) ==
    /\ engines[i].pc = "loop"
    /\ exit = "closed"
    /\ engines' = [engines EXCEPT ![i].pc = "done"]
    /\ UNCHANGED <<running, exit, advertise, eventChan, evChans, chans, subscribers,
                   mu, closeWaiting, calls, closeRet, advRet,
                   initPending, pubs, nMut, nTicks, panicked, table, procVars,
                   aggVars, domVars, manVars, syncVars, watchVars, gwVars>>

\* watchTable after r.exit was closed: w.Next() fails with ErrWatcherStopped,
\* or the select takes <-r.exit; the forwarder loop then ends on r.exit
FwdExit(i) ==
    /\ engines[i].fwd \in {"next", "send"}
    /\ exit = "closed"
    /\ engines' = [engines EXCEPT ![i].fwd = "done", ![i].held = NilEvent]
    /\ UNCHANGED <<running, exit, advertise, eventChan, evChans, chans, subscribers,
                   mu, closeWaiting, calls, closeRet, advRet,
                   initPending, pubs, nMut, nTicks, panicked, table, procVars,
                   aggVars, domVars, manVars, syncVars, watchVars, gwVars>>

\* watchTable reaches its select with an event while r.eventChan, which it
\* reads without the lock, is closed and not yet nil: r.exit is closed too,
\* and when the select takes the send case the send panics
FwdPanic(i) ==
    /\ engines[i].fwd = "send"
    /\ eventChan # NoChan
    /\ evChans[eventChan].closed
    /\ engines' = [engines EXCEPT ![i].fwd = "panic"]
    /\ UNCHANGED <<running, exit, advertise, eventChan, evChans, chans, subscribers,
                   mu, closeWaiting, calls, closeRet, advRet,
                   initPending, pubs, nMut, nTicks, panicked, table, procVars,
                   aggVars, domVars, manVars, syncVars, watchVars, gwVars>>

\* what a table operation does and the event it emits
TableApply(t, op, r, now) ==
    CASE op = Create ->
            [res |-> TableCreate(t, r),
             event |-> [Type |-> Create, Timestamp |-> now, Route |-> r]]
      [] op = Delete ->
            [res |-> TableDelete(t, r),
             event |-> [Type |-> Delete, Timestamp |-> now, Route |-> r]]
      [] OTHER ->
            [res |-> TableUpdate(t, r),
             event |-> [Type |-> IF HasRoute(t, r) THEN Update ELSE Create,
                        Timestamp |-> now, Route |-> r]]

\* a user of the table (registry sync, Process, a caller) changes it; the event
\* goes to every watcher that is not stopped
TableMutate ==
    /\ Ops < MaxOps
    /\ \E op \in EventTypes, r \in LifeRoutes :
         LET a == TableApply(table, op, r, nMut + 1) IN
         /\ a.res.err = Nil
         /\ table' = a.res.table
         /\ engines' = [i \in 1..Len(engines) |->
                          IF engines[i].fwd \in {"next", "send"}
                          THEN watchTableNext(
                                 [engines[i] EXCEPT !.wbuf = Append(@, a.event)])
                          ELSE engines[i]]
    /\ nMut' = nMut + 1
    /\ UNCHANGED <<running, exit, advertise, eventChan, evChans, chans, subscribers,
                   mu, closeWaiting, calls, closeRet, advRet,
                   initPending, pubs, nTicks, panicked, procVars, aggVars, domVars, manVars, syncVars, watchVars, gwVars>>

TableMutation ==
    /\ nMut < Caps.Mutation
    /\ TableMutate

Next ==
    \/ Advertise
    \/ AdvertiseLock
    \/ AdvertiseBody
    \/ CloseCall
    \/ CloseEnter
    \/ CloseSubs
    \/ CloseFinish
    \/ InitCall
    \/ OptionsCall
    \/ TableCall
    \/ TableMutation
    \/ \E p \in 1..Len(pubs) : PubStart(p) \/ PubSend(p) \/ PubAbort(p)
    \/ \E c \in 1..Len(chans) : Consume(c)
    \/ \E i \in 1..Len(engines) :
         \/ EngineStart(i)
         \/ EngineTick(i)
         \/ EngineDrain(i)
         \/ EngineRecv(i)
         \/ EngineExit(i)
         \/ FwdExit(i)
         \/ FwdPanic(i)

Spec == Init /\ [][Next]_vars

(***************************************************************************)
(* The adverts of one subscriber: a running router with strategy           *)
(* AdvertiseAll, one Advertise() call, several table mutations and ticks,  *)
(* no Init() and no Close().                                               *)
(***************************************************************************)
MaxOrderMutations == 2

InitOrder ==
    /\ Init
    /\ running
    /\ advertise = AdvertiseAll

\* the first Advertise() call
OrderAdvertise == Advertise /\ calls["Advertise"] = 0

OrderMutation ==
    /\ nMut < MaxOrderMutations
    /\ TableMutate

NextOrder ==
    \/ OrderAdvertise
    \/ OrderMutation
    \/ \E p \in 1..Len(pubs) : PubStart(p) \/ PubSend(p)
    \/ \E c \in 1..Len(chans) : Consume(c)
    \/ \E i \in 1..Len(engines) :
         \/ EngineStart(i)
         \/ EngineTick(i)
         \/ EngineDrain(i)
         \/ EngineRecv(i)

SpecOrder == InitOrder /\ [][NextOrder]_vars

(***************************************************************************)
(* SpecManage: watchRegistry handles one result of the registry watcher:   *)
(* getDomain, then manageRoutes on the table.                              *)
(***************************************************************************)
ToLowerKeep(action) == action

\* strings.ToLower on the actions a registry sends
ToLower(action) ==
    CASE action \in {"delete", "Delete", "DELETE"} -> "delete"
      [] action \in {"create", "Create"} -> "create"
      [] action \in {"update", "UPDATE"} -> "update"
      [] OTHER -> action

\* createRoutes: one route per node of the service
createRoutes(service, network) ==
    [i \in 1..Len(service.Nodes) |->
        [MkRoute(service.Name, service.Nodes[i].Address, SelfId, "local", 1)
            EXCEPT !.Network = network]]

\* the table operation manageRoute runs for an action
ActionOp(action) ==
    CASE action = "create" -> Create
      [] action = "delete" -> Delete
      [] OTHER -> Update

\* the event the table emits for manageRoute(route, action), if any
EmittedBy(t, route, action) ==
    IF action \in {"create", "delete", "update"}
       /\ TableApply(t, ActionOp(action), route, 0).res.err = Nil
    THEN <<TableApply(t, ActionOp(action), route, 0).event>>
    ELSE <<>>

\* table.deleteService: removes the routes of the service in the network
\* ("*" matches any network); one Delete event for each
deleteService(t, service, network) ==
    LET gone == {r \in t : r.Service = service
                           /\ (network = "*" \/ r.Network = network)} IN
    {[table |-> t \ gone,
      events |-> [i \in 1..Len(o) |->
                    [Type |-> Delete, Timestamp |-> 0, Route |-> o[i]]],
      err |-> Nil,
      wiped |-> [service |-> service, network |-> network, called |-> TRUE]] :
        o \in Orders(gone)}

\* the loop of manageRoutes over the routes, from route i on
RECURSIVE ManageEach(_, _, _, _, _)
ManageEach(t, routes, action, i, events) ==
    IF i > Len(routes)
    THEN [table |-> t, events |-> events, err |-> Nil, wiped |-> NoWipe]
    ELSE LET res == manageRoute(t, routes[i], action) IN
         IF res.err # Nil
         THEN [table |-> res.table, events |-> events, err |-> res.err,
               wiped |-> NoWipe]
         ELSE ManageEach(res.table, routes, action, i + 1,
                         events \o EmittedBy(t, routes[i], action))

\* the outcomes of manageRoutes(service, action, network)
manageRoutes(t, service, action, network) ==
    LET act == ToLower(action)
        routes == createRoutes(service, network)
    IN  IF act = "delete" /\ Len(routes) = 0
        THEN deleteService(t, service.Name, network)
        ELSE {ManageEach(t, routes, act, 1, <<>>)}

ManAddresses == {"10.0.0.1", "10.0.0.2", "10.0.0.3"}
ManActions == {"create", "Create", "delete", "Delete", "DELETE", "update", "sync"}
ManNodes == {[Address |-> a, Metadata |-> NilMap] : a \in ManAddresses}
ManServices ==
    {[nil |-> FALSE, Name |-> n, Metadata |-> mp, Nodes |-> ns] :
        n \in {"cart", "auth"}, mp \in {NilMap, MkMap({<<"domain", "prod">>})},
        ns \in SeqsUpTo(ManNodes, MaxNodes)}
NilService == [nil |-> TRUE, Name |-> "", Metadata |-> NilMap, Nodes |-> <<>>]
ManRoutes ==
    {[MkRoute("cart", a, SelfId, "local", 1) EXCEPT !.Network = "prod"] :
        a \in ManAddresses}
    \cup {MkRoute("cart", "10.0.0.1", SelfId, "local", 1),
          [MkRoute("auth", "10.0.0.1", SelfId, "local", 1) EXCEPT !.Network = "prod"]}

InitManage ==
    /\ table \in SUBSET ManRoutes
    /\ mRes \in {[Action |-> a, Service |-> srv] :
                    a \in ManActions, srv \in ManServices \cup {NilService}}
    /\ mPc = "ready"
    /\ mBefore = {}
    /\ mOut = [events |-> <<>>, err |-> Nil, wiped |-> NoWipe]
    /\ ProcIdle
    /\ AggIdle
    /\ LifeIdle
    /\ DomIdle
    /\ SyncIdle
    /\ WatchIdle
    /\ GwIdle

\* watchRegistry: one result of w.Next()
WatchResult ==
    /\ mPc = "ready"
    /\ mPc' = "done"
    /\ mBefore' = table
    /\ IF mRes.Service.nil
       THEN UNCHANGED <<table, mOut>>
       ELSE \E out \in manageRoutes(table, mRes.Service, mRes.Action,
                                    getDomain(mRes.Service)) :
              /\ table' = out.table
              /\ mOut' = [events |-> out.events, err |-> out.err,
                          wiped |-> out.wiped]
    /\ UNCHANGED <<mRes, procVars, aggVars, lifeVars, domVars, syncVars, watchVars, gwVars>>

NextManage == WatchResult

SpecManage == InitManage /\ [][NextManage]_vars

(***************************************************************************)
(* SpecSync: the goroutine of start() that refreshes the routes from the   *)
(* registry every RefreshInterval and prunes the table every               *)
(* PruneInterval.  Time advances in units; a tick is handled in the unit   *)
(* it fired in or in the next one.  Ages saturate above RefreshInterval.   *)
(***************************************************************************)
MaxAge == RefreshInterval + 1

SyncService(n) ==
    [nil |-> FALSE, Name |-> n, Metadata |-> NilMap,
     Nodes |-> <<[Address |-> "10.0.0.1", Metadata |-> NilMap]>>]

SyncRouteOf ==
    [n \in SyncNames |->
        createRoutes(SyncService(n), getDomain(SyncService(n)))[1]]

SyncRoute(n) == SyncRouteOf[n]

\* the services a refresh gets with their nodes: from ListServices, or for a
\* service listed without nodes from GetService
Reported(registry, listed, got) ==
    {n \in SyncNames :
        listed /\ (registry[n] = "full" \/ (registry[n] = "bare" /\ got[n]))}

\* table.Create, and table.Update on ErrDuplicateRoute
CreateOrUpdate(t, r) ==
    IF TableCreate(t, r).err = ErrDuplicateRoute
    THEN TableApply(t, Update, r, 0)
    ELSE TableApply(t, Create, r, 0)

\* loadRoutes: every route of a reported service is created, or updated so
\* that it is seen now
loadRoutes(t, ag, seen) ==
    [table |-> t \cup {SyncRoute(n) : n \in seen},
     age |-> [n \in SyncNames |-> IF n \in seen THEN 0 ELSE ag[n]],
     events |-> {CreateOrUpdate(t, SyncRoute(n)).event : n \in seen}]

\* table.pruneRoutes(ttl): every route last seen more than ttl ago is deleted
pruneRoutes(t, ag, ttl) ==
    LET old == {n \in SyncNames : SyncRoute(n) \in t /\ ag[n] > ttl} IN
    [table |-> t \ {SyncRoute(n) : n \in old},
     age |-> [n \in SyncNames |-> IF n \in old THEN 0 ELSE ag[n]],
     events |-> {[Type |-> Delete, Timestamp |-> 0, Route |-> SyncRoute(n)] :
                    n \in old}]

\* start(): the default gateway route; the only non-default value is the gateway
GatewayRoute(gw) ==
    [MkRoute("*", "*", SelfId, "local", 1) EXCEPT !.Gateway = gw, !.Network = "*"]

\* table.pruneRoutes(ttl) for the gateway route: no refresh touches it, so its
\* last-seen time is the time of the Create in start()
pruneGateway(t, gw, ga, ttl) ==
    LET old == gw # "" /\ GatewayRoute(gw) \in t /\ ga > ttl IN
    [table |-> IF old THEN t \ {GatewayRoute(gw)} ELSE t,
     gwAge |-> IF old THEN 0 ELSE ga,
     events |-> IF old
                THEN {[Type |-> Delete, Timestamp |-> 0, Route |-> GatewayRoute(gw)]}
                ELSE {}]

\* a ticker after one more time unit: it fires when its period is over; its
\* channel holds one tick (pend 1: fired in this unit, 2: fired earlier)
Elapse(tk, interval) ==
    LET ph == (tk.phase + 1) % interval IN
    [phase |-> ph,
     pend |-> IF ph = 0 THEN (IF tk.pend = 0 THEN 1 ELSE 2)
              ELSE (IF tk.pend = 1 THEN 2 ELSE tk.pend)]

LifeStarted ==
    /\ running = TRUE
    /\ exit = "open"
    /\ advertise = AdvertiseAll
    /\ eventChan = NoChan
    /\ evChans = <<>>
    /\ chans = <<>>
    /\ subscribers = {}
    /\ mu = "free"
    /\ closeWaiting = 0
    /\ calls = [op \in {"Advertise", "Close", "Init"} |-> 0]
    /\ closeRet = [count |-> 0, branch |-> "none", subs |-> 0]
    /\ advRet = [chan |-> NoChan, err |-> Nil]
    /\ initPending = 0
    /\ pubs = <<>>
    /\ engines = <<>>
    /\ nMut = 0
    /\ nTicks = 0
    /\ panicked = FALSE

\* start(): the optional preload, some time before the tickers are made
InitSync ==
    /\ reg \in [SyncNames -> {"full", "bare", "gone"}]
    /\ \E precache \in BOOLEAN, got \in [SyncNames -> BOOLEAN], took \in 0..1 :
         LET seen == IF precache THEN Reported(reg, TRUE, got) ELSE {} IN
         /\ table = loadRoutes({}, [n \in SyncNames |-> 0], seen).table
         /\ age = [n \in SyncNames |-> IF n \in seen THEN took ELSE 0]
    /\ tickR = [phase |-> 0, pend |-> 0]
    /\ tickP = [phase |-> 0, pend |-> 0]
    /\ syncPc = "loop"
    /\ sEvents = {}
    /\ missed = {}
    /\ LifeStarted
    /\ ProcIdle
    /\ AggIdle
    /\ DomIdle
    /\ ManIdle
    /\ WatchIdle
    /\ GwIdle

\* one time unit passes
TimeAdvance ==
    /\ syncPc = "loop"
    /\ tickR.pend # 2
    /\ tickP.pend # 2
    /\ tickR' = Elapse(tickR, RefreshInterval)
    /\ tickP' = Elapse(tickP, PruneInterval)
    /\ age' = [n \in SyncNames |->
                 IF SyncRoute(n) \in table /\ age[n] < MaxAge THEN age[n] + 1
                 ELSE age[n]]
    /\ gwAge' = IF gateway # "" /\ GatewayRoute(gateway) \in table /\ gwAge < MaxAge
                THEN gwAge + 1
                ELSE gwAge
    /\ UNCHANGED <<table, reg, syncPc, sEvents, missed, procVars, aggVars,
                   lifeVars, domVars, manVars, watchVars, gateway>>

\* case <-t1.C: r.loadRoutes(r.options.Registry)
RefreshTick ==
    /\ syncPc = "loop"
    /\ tickR.pend > 0
    /\ tickR' = [tickR EXCEPT !.pend = 0]
    /\ \E listed \in BOOLEAN, got \in [SyncNames -> BOOLEAN] :
         LET seen == Reported(reg, listed, got)
             res == loadRoutes(table, age, seen)
         IN  /\ table' = res.table
             /\ age' = res.age
             /\ sEvents' = res.events
             /\ missed' = missed \cup (SyncNames \ seen)
    /\ UNCHANGED <<reg, tickP, syncPc, procVars, aggVars, lifeVars, domVars,
                   manVars, watchVars, gwVars>>

PruneTickNoPrune ==
    /\ syncPc = "loop"
    /\ tickP.pend > 0
    /\ tickP' = [tickP EXCEPT !.pend = 0]
    /\ UNCHANGED <<table, age, sEvents, reg, tickR, syncPc, missed, procVars,
                   aggVars, lifeVars, domVars, manVars, watchVars, gwVars>>

\* case <-t2.C: r.table.pruneRoutes(RefreshInterval)
PruneTick ==
    /\ syncPc = "loop"
    /\ tickP.pend > 0
    /\ tickP' = [tickP EXCEPT !.pend = 0]
    /\ LET res == pruneRoutes(table, age, RefreshInterval)
           gw == pruneGateway(res.table, gateway, gwAge, RefreshInterval)
       IN
       /\ table' = gw.table
       /\ age' = res.age
       /\ gwAge' = gw.gwAge
       /\ sEvents' = res.events \cup gw.events
    /\ UNCHANGED <<reg, tickR, syncPc, missed, procVars, aggVars, lifeVars,
                   domVars, manVars, watchVars, gateway>>

\* case <-r.exit: return (the deferred t1.Stop() and t2.Stop())
SyncExit ==
    /\ syncPc = "loop"
    /\ exit = "closed"
    /\ syncPc' = "done"
    /\ tickR' = [tickR EXCEPT !.pend = 0]
    /\ tickP' = [tickP EXCEPT !.pend = 0]
    /\ UNCHANGED <<table, reg, age, sEvents, missed, procVars, aggVars, lifeVars,
                   domVars, manVars, watchVars, gwVars>>

\* a service leaves the registry for good
RegistryDrop(n) ==
    /\ reg[n] # "gone"
    /\ reg' = [reg EXCEPT ![n] = "gone"]
    /\ UNCHANGED <<table, age, tickR, tickP, syncPc, sEvents, missed, procVars,
                   aggVars, lifeVars, domVars, manVars, watchVars, gwVars>>

\* the first Close() call
SyncCloseCall == CloseCall /\ calls["Close"] = 0

NextSync ==
    \/ TimeAdvance
    \/ RefreshTick
    \/ PruneTick
    \/ SyncExit
    \/ \E n \in SyncNames : RegistryDrop(n)
    \/ SyncCloseCall
    \/ CloseEnter
    \/ CloseSubs
    \/ CloseFinish

SpecSync == InitSync /\ [][NextSync]_vars

\* r.options.Gateway is set: start() with the default gateway route in the table
GatewayAddress == "10.0.0.254"

InitGateway ==
    /\ reg \in [SyncNames -> {"full", "bare", "gone"}]
    /\ gateway = GatewayAddress
    /\ \E precache \in BOOLEAN, got \in [SyncNames -> BOOLEAN], took \in 0..1 :
         LET seen == IF precache THEN Reported(reg, TRUE, got) ELSE {} IN
         /\ table = loadRoutes({}, [n \in SyncNames |-> 0], seen).table
                        \cup {GatewayRoute(gateway)}
         /\ age = [n \in SyncNames |-> IF n \in seen THEN took ELSE 0]
         /\ gwAge \in 0..took
    /\ tickR = [phase |-> 0, pend |-> 0]
    /\ tickP = [phase |-> 0, pend |-> 0]
    /\ syncPc = "loop"
    /\ sEvents = {}
    /\ missed = {}
    /\ LifeStarted
    /\ ProcIdle
    /\ AggIdle
    /\ DomIdle
    /\ ManIdle
    /\ WatchIdle

SpecGateway == InitGateway /\ [][NextSync]_vars

\* time passes, and the select of the loop takes each ready case in the end
SpecSyncFair ==
    /\ SpecSync
    /\ WF_vars(TimeAdvance)
    /\ WF_vars(RefreshTick)
    /\ WF_vars(PruneTick)
    /\ WF_vars(SyncExit)

(***************************************************************************)
(* SpecWatch: the goroutine of start() that keeps a registry watcher open, *)
(* watchRegistry with its stopper goroutine, the senders that Init()       *)
(* starts on r.initChan, and Close().  r.initChan is unbuffered: a sender  *)
(* hands its value to a stopper that is already blocked in its select, and *)
(* blocks when there is none; a stopper that reaches its select later      *)
(* picks among the cases that are ready then.                              *)
(***************************************************************************)
MaxStale == 1

WatchResults ==
    {[Action |-> a, Service |-> srv] :
        a \in {"create", "delete", "sync"},
        srv \in {NilService, SyncService("auth")}}

InitWatch ==
    /\ table = {}
    /\ wlPc = "select"
    /\ rw = "none"
    /\ stopper = "none"
    /\ stale = 0
    /\ gen = 0
    /\ wlErr = 0
    /\ LifeStarted
    /\ ProcIdle
    /\ AggIdle
    /\ DomIdle
    /\ ManIdle
    /\ SyncIdle
    /\ GwIdle

\* the select at the top of the loop: return on a closed r.exit, else default
WatchSelect ==
    /\ wlPc = "select"
    /\ wlPc' = IF exit = "closed" THEN "done" ELSE "opening"
    /\ UNCHANGED <<table, rw, stopper, stale, gen, wlErr, procVars, aggVars,
                   lifeVars, domVars, manVars, syncVars, gwVars>>

\* Registry.Watch() succeeds; watchRegistry starts its stopper goroutine
WatchOpenOk ==
    /\ wlPc = "opening"
    /\ wlPc' = "watching"
    /\ rw' = "open"
    /\ stopper' = "spawned"
    /\ gen' = (gen + 1) % 3
    /\ UNCHANGED <<table, stale, wlErr, procVars, aggVars, lifeVars, domVars,
                   manVars, syncVars, gwVars>>

\* Registry.Watch() fails: the error is logged and the loop sleeps
WatchOpenFail ==
    /\ wlPc = "opening"
    /\ wlPc' = "sleep"
    /\ wlErr' = (wlErr + 1) % 2
    /\ UNCHANGED <<table, rw, stopper, stale, gen, procVars, aggVars, lifeVars,
                   domVars, manVars, syncVars, gwVars>>

\* time.Sleep(time.Second) is over
WatchWake ==
    /\ wlPc = "sleep"
    /\ wlPc' = "select"
    /\ UNCHANGED <<table, rw, stopper, stale, gen, wlErr, procVars, aggVars,
                   lifeVars, domVars, manVars, syncVars, gwVars>>

\* watchRegistry returns: the deferred close(exit) releases a stopper that is
\* blocked in its select; one that has not reached its select yet is left
\* behind with the closed channel
WatchReturn(failed) ==
    /\ stopper = "spawned" => stale < MaxStale
    /\ wlPc' = IF failed THEN "sleep" ELSE "select"
    /\ wlErr' = IF failed THEN (wlErr + 1) % 2 ELSE wlErr
    /\ rw' = "none"
    /\ stopper' = "none"
    /\ stale' = IF stopper = "spawned" THEN stale + 1 ELSE stale

\* w.Next() of a stopped watcher: ErrWatcherStopped, break, return nil
WatchNextStopped ==
    /\ wlPc = "watching"
    /\ rw = "stopped"
    /\ WatchReturn(FALSE)
    /\ UNCHANGED <<table, gen, procVars, aggVars, lifeVars, domVars, manVars,
                   syncVars, gwVars>>

\* w.Next() fails with another error: watchRegistry returns it
WatchNextError ==
    /\ wlPc = "watching"
    /\ rw = "open"
    /\ WatchReturn(TRUE)
    /\ UNCHANGED <<table, gen, procVars, aggVars, lifeVars, domVars, manVars,
                   syncVars, gwVars>>

\* w.Next() yields a result: nil services are skipped, the others go to
\* manageRoutes, whose error ends watchRegistry
WatchNextResult ==
    /\ wlPc = "watching"
    /\ rw = "open"
    /\ \E res \in WatchResults :
         IF res.Service.nil
         THEN UNCHANGED <<table, watchVars>>
         ELSE \E out \in manageRoutes(table, res.Service, res.Action,
                                      getDomain(res.Service)) :
                /\ table' = out.table
                /\ IF out.err # Nil
                   THEN WatchReturn(TRUE) /\ UNCHANGED gen
                   ELSE UNCHANGED watchVars
    /\ UNCHANGED <<procVars, aggVars, lifeVars, domVars, manVars, syncVars, gwVars>>

\* the stopper reaches its select and finds no case ready
StopperWait ==
    /\ stopper = "spawned"
    /\ exit # "closed"
    /\ stopper' = "waiting"
    /\ UNCHANGED <<table, wlPc, rw, stale, gen, wlErr, procVars, aggVars,
                   lifeVars, domVars, manVars, syncVars, gwVars>>

\* the stopper receives from r.initChan and stops its watcher
StopperInit ==
    /\ stopper \in {"spawned", "waiting"}
    /\ initPending > 0
    /\ initPending' = initPending - 1
    /\ stopper' = "done"
    /\ rw' = "stopped"
    /\ UNCHANGED <<table, wlPc, stale, gen, wlErr, running, exit, advertise,
                   eventChan, evChans, chans, subscribers, mu, closeWaiting,
                   calls, closeRet, advRet, pubs, engines, nMut, nTicks,
                   panicked, procVars, aggVars, domVars, manVars, syncVars, gwVars>>

\* a stopper whose select has no case for r.exit
StopperIgnoresExit ==
    /\ stopper \in {"spawned", "waiting"}
    /\ exit = "closed"
    /\ UNCHANGED vars

\* the stopper finds r.exit closed and stops its watcher
StopperExit ==
    /\ stopper \in {"spawned", "waiting"}
    /\ exit = "closed"
    /\ stopper' = "done"
    /\ rw' = "stopped"
    /\ UNCHANGED <<table, wlPc, stale, gen, wlErr, procVars, aggVars, lifeVars,
                   domVars, manVars, syncVars, gwVars>>

\* a stopper left behind reaches its select and takes its closed exit channel
\* (or the closed r.exit); its w.Stop() stops the watcher of the call that has
\* returned
StaleExit ==
    /\ stale > 0
    /\ stale' = stale - 1
    /\ UNCHANGED <<table, wlPc, rw, stopper, gen, wlErr, procVars, aggVars,
                   lifeVars, domVars, manVars, syncVars, gwVars>>

\* a stopper left behind reaches its select while a sender of Init() is
\* blocked on r.initChan: both cases are ready and the select may take the
\* signal.  No sender is blocked while the current stopper waits in its select.
StaleInit ==
    /\ stale > 0
    /\ initPending > 0
    /\ stopper # "waiting"
    /\ stale' = stale - 1
    /\ initPending' = initPending - 1
    /\ UNCHANGED <<table, wlPc, rw, stopper, gen, wlErr, running, exit,
                   advertise, eventChan, evChans, chans, subscribers, mu,
                   closeWaiting, calls, closeRet, advRet, pubs, engines, nMut,
                   nTicks, panicked, procVars, aggVars, domVars, manVars,
                   syncVars, gwVars>>

\* Init() with the options it already had
WatchInitCall == InitCall /\ advertise' = advertise

NextWatch ==
    \/ WatchSelect
    \/ WatchOpenOk
    \/ WatchOpenFail
    \/ WatchWake
    \/ WatchNextStopped
    \/ WatchNextError
    \/ WatchNextResult
    \/ StopperWait
    \/ StopperInit
    \/ StopperExit
    \/ StaleExit
    \/ StaleInit
    \/ WatchInitCall
    \/ SyncCloseCall
    \/ CloseEnter
    \/ CloseSubs
    \/ CloseFinish

SpecWatch == InitWatch /\ [][NextWatch]_vars

\* every goroutine that can take a step takes one in the end, Close() runs to
\* its end, and the registry does not refuse a watcher for ever
SpecWatchFair ==
    /\ SpecWatch
    /\ WF_vars(WatchSelect)
    /\ WF_vars(WatchWake)
    /\ SF_vars(WatchOpenOk)
    /\ WF_vars(WatchNextStopped)
    /\ WF_vars(StopperWait)
    /\ WF_vars(StopperInit)
    /\ WF_vars(StopperExit)
    /\ WF_vars(StaleExit)
    /\ WF_vars(CloseEnter)
    /\ WF_vars(CloseSubs)
    /\ WF_vars(CloseFinish)

(***************************************************************************)
(* SpecShutdown: a started router with all its goroutines and one Close(). *)
(* The refresh/prune loop has a prune tick pending, the registry watch     *)
(* loop opens, loses and reopens a watcher, and one Advertise(), one table *)
(* mutation and one tick run the forwarder, the aggregation loop and the   *)
(* publishers against a consumer that does not read.                       *)
(***************************************************************************)
InitShutdown ==
    /\ reg = [n \in SyncNames |-> "full"]
    /\ table = loadRoutes({}, [n \in SyncNames |-> 0], SyncNames).table
    /\ age = [n \in SyncNames |-> 0]
    /\ tickR = [phase |-> 0, pend |-> 0]
    /\ tickP = [phase |-> 0, pend |-> 1]
    /\ syncPc = "loop"
    /\ sEvents = {}
    /\ missed = {}
    /\ wlPc = "select"
    /\ rw = "none"
    /\ stopper = "none"
    /\ stale = 0
    /\ gen = 0
    /\ wlErr = 0
    /\ LifeStarted
    /\ ProcIdle
    /\ AggIdle
    /\ DomIdle
    /\ ManIdle
    /\ GwIdle

\* the first Advertise()
ShutAdvertise == Advertise /\ calls["Advertise"] = 0

\* another user of the table creates the route of a peer while the forwarder
\* waits in w.Next()
ShutMutation ==
    /\ engines # <<>>
    /\ engines[1].fwd = "next"
    /\ TableMutation
    /\ table' = table \cup {PeerRoute}

\* the first tick of the aggregation loop
ShutTick(i) == EngineTick(i) /\ nTicks = 0

\* the first watcher fails
ShutNextError == WatchNextError /\ gen = 1

NextShutdown ==
    \/ ShutAdvertise
    \/ ShutMutation
    \/ SyncCloseCall
    \/ CloseEnter
    \/ CloseSubs
    \/ CloseFinish
    \/ PruneTick
    \/ SyncExit
    \/ WatchSelect
    \/ WatchOpenOk
    \/ WatchWake
    \/ WatchNextStopped
    \/ ShutNextError
    \/ StopperWait
    \/ StopperExit
    \/ StaleExit
    \/ \E p \in 1..Len(pubs) : PubStart(p) \/ PubSend(p) \/ PubAbort(p)
    \/ \E i \in 1..Len(engines) :
         \/ EngineStart(i)
         \/ ShutTick(i)
         \/ EngineDrain(i)
         \/ EngineRecv(i)
         \/ EngineExit(i)
         \/ FwdExit(i)
         \/ FwdPanic(i)

SpecShutdown == InitShutdown /\ [][NextShutdown]_vars

\* every goroutine that can take a step takes one in the end: the cases of a
\* select that stay ready are taken, Registry.Watch() returns, a sleep ends,
\* and w.Next() of a stopped watcher returns
SpecShutdownFair ==
    /\ SpecShutdown
    /\ WF_vars(CloseEnter)
    /\ WF_vars(CloseSubs)
    /\ WF_vars(CloseFinish)
    /\ WF_vars(SyncExit)
    /\ WF_vars(WatchSelect)
    /\ WF_vars(WatchOpenOk)
    /\ WF_vars(WatchWake)
    /\ WF_vars(WatchNextStopped)
    /\ WF_vars(StopperWait)
    /\ WF_vars(StopperExit)
    /\ WF_vars(StaleExit)
    /\ \A p \in 1..2 : WF_vars(p \in 1..Len(pubs) /\ (PubStart(p) \/ PubAbort(p)))
    /\ WF_vars(engines # <<>> /\ EngineStart(1))
    /\ WF_vars(engines # <<>> /\ EngineDrain(1))
    /\ WF_vars(engines # <<>> /\ EngineExit(1))
    /\ WF_vars(engines # <<>> /\ (FwdExit(1) \/ FwdPanic(1)))

(***************************************************************************)
(* Claims about the aggregation loop (SpecAgg).                            *)
(***************************************************************************)
RouteOf(h) == CHOOSE r \in AggRoutes : Hash(r) = h
DrainedFor(h) == {e \in aDrained : Hash(e.Route) = h}
SameType(w) == \A i \in 1..Len(w) : w[i].Type = w[1].Type

\* C1: the events received for one fingerprint within a tick window lead to a
\* single advertised event for it, of the type of the most recent event (a
\* pending entry of another type is replaced): Update, Update, Delete is
\* advertised as one Delete.
C1_MostRecentTypeWins ==
    \A h \in AggHashes :
        (aTicks > 0 /\ aLastWindow[h] # <<>> /\ Admits(aStrategy, RouteOf(h)))
        => /\ Cardinality(DrainedFor(h)) = 1
           /\ \A e \in DrainedFor(h) :
                e.Type = aLastWindow[h][Len(aLastWindow[h])].Type

\* C2: N >= 1 events of one type for one fingerprint, accepted under the
\* strategy in force within one tick window, are advertised as exactly one
\* event for that fingerprint: the first one received.
C2_SameTypeCollapse ==
    \A h \in AggHashes :
        (aTicks > 0 /\ aLastWindow[h] # <<>> /\ SameType(aLastWindow[h])
            /\ Admits(aStrategy, RouteOf(h)))
        => DrainedFor(h) = {aLastWindow[h][1]}

C2_Witness ==
    \E h \in AggHashes :
        /\ Len(aLastWindow[h]) = 3
        /\ SameType(aLastWindow[h])
        /\ aLastWindow[h][1].Type = Update
        /\ DrainedFor(h) = {aLastWindow[h][1]}
        /\ aPublished # <<>>

(***************************************************************************)
(* Claims about Process (SpecProcess).                                     *)
(***************************************************************************)
NotSelf(e) == e.Route.Router # SelfId
Count(q, e) == Cardinality({i \in 1..Len(q) : q[i] = e})

\* the table after an event took effect, a duplicate create and a delete of
\* an absent route being no-ops
Effect(t, e) ==
    CASE e.Type = Create -> IF HasRoute(t, e.Route) THEN t ELSE t \cup {e.Route}
      [] e.Type = Delete -> {x \in t : Hash(x) # Hash(e.Route)}
      [] e.Type = Update -> {x \in t : Hash(x) # Hash(e.Route)} \cup {e.Route}
      [] OTHER -> t

RECURSIVE Effects(_, _)
Effects(t, q) == IF q = <<>> THEN t ELSE Effects(Effect(t, Head(q)), Tail(q))

\* C3: Process applies no event whose Route.Router is this router's id: an
\* advert of such events only leaves the table unchanged, and a call that
\* returns nil has applied exactly the events of another Router (one self
\* event and one create of an absent peer route: the table grows by one).
C3_LoopPrevention ==
    pPc = "done" =>
        /\ \A i \in 1..Len(pApplied) : NotSelf(pApplied[i])
        /\ (\A i \in 1..Len(pAdvert) : ~NotSelf(pAdvert[i])) => table = pBefore
        /\ pErr = Nil =>
             \A e \in ProcEvents :
                Count(pApplied, e) = IF NotSelf(e) THEN Count(pAdvert, e) ELSE 0
        /\ ( /\ Len(pAdvert) = 2
             /\ \E i, j \in 1..2 :
                  /\ ~NotSelf(pAdvert[i])
                  /\ NotSelf(pAdvert[j]) /\ pAdvert[j].Type = Create
                  /\ ~HasRoute(pBefore, pAdvert[j].Route) )
           => Cardinality(table) = Cardinality(pBefore) + 1

C3_Witness ==
    /\ pPc = "done"
    /\ pBefore = {}
    /\ Len(pAdvert) = 2
    /\ pAdvert[1] = [Type |-> Create, Timestamp |-> 1, Route |-> SelfRoute]
    /\ pAdvert[2] = [Type |-> Create, Timestamp |-> 2, Route |-> PeerRoute]
    /\ table = {PeerRoute}

\* C4: within one Process call the events are applied in non-decreasing
\* Timestamp order, whatever their order in advert.Events.
C4_TimestampOrder ==
    pPc = "done" => IsSorted(pApplied)

C4_Witness ==
    /\ pPc = "done"
    /\ Len(pAdvert) = 3
    /\ \A i \in 1..3 : NotSelf(pAdvert[i])
    /\ pAdvert[1].Timestamp = 2 /\ pAdvert[2].Timestamp = 1
    /\ pAdvert[3].Timestamp = 2
    /\ Len(pApplied) = 3
    /\ pApplied[1] = pAdvert[2]

\* C5: Process absorbs ErrDuplicateRoute of a create and ErrRouteNotFound of a
\* delete and goes on with the next event; it returns an error exactly when an
\* applied event fails otherwise (an unknown action), that event is the last
\* one applied and the table is what the events before it made of it.
C5_ErrorPolicy ==
    pPc = "done" =>
        /\ table = Effects(pBefore, pApplied)
        /\ \A i \in 1..Len(pApplied) :
              (pApplied[i].Type \notin EventTypes) => (i = Len(pApplied) /\ pErr # Nil)
        /\ pErr # Nil =>
              /\ pApplied # <<>>
              /\ pApplied[Len(pApplied)].Type \notin EventTypes
        /\ pErr = Nil =>
              \A e \in ProcEvents :
                 NotSelf(e) => Count(pApplied, e) = Count(pAdvert, e)
        /\ \E order \in SortedOrders(pAdvert) :
              LET ns == SelectSeq(order, NotSelf) IN
              /\ Len(pApplied) <= Len(ns)
              /\ pApplied = SubSeq(ns, 1, Len(pApplied))

C5_Witness ==
    /\ pPc = "done"
    /\ pBefore = {PeerRoute}
    /\ pAdvert = << [Type |-> Create, Timestamp |-> 1, Route |-> PeerRoute],
                    [Type |-> Delete, Timestamp |-> 1, Route |-> PeerRoute],
                    [Type |-> BadType, Timestamp |-> 2, Route |-> PeerRoute] >>
    /\ pApplied = pAdvert
    /\ table = {}
    /\ pErr # Nil

(***************************************************************************)
(* Claims about the lifecycle (Spec).                                      *)
(***************************************************************************)
\* C6: on a started router the channel returned by the first Advertise() call
\* gets the Announce advert, with one event per route the strategy selects
\* from the table, before any advert of type Update.
C6_AnnounceFirst ==
    (exit # "nil" /\ Len(chans) >= 1 /\ chans[1].first # "none")
    => /\ chans[1].first = Announce
       /\ pubs[1].type = Announce
       /\ \A e \in pubs[1].events : e.Type = Create /\ e.Route \in LifeRoutes
       /\ \A e, f \in pubs[1].events : e.Route = f.Route => e = f

\* a step Close() is waiting for: its own, that of the Advertise holding
\* r.Lock, or that of a publisher holding r.sub.RLock
ClosePath ==
    \/ CloseEnter
    \/ CloseSubs
    \/ CloseFinish
    \/ AdvertiseBody
    \/ \E p \in 1..Len(pubs) : PubSend(p) \/ PubAbort(p)

\* C7: on a started router a Close() that was called can always go on
\* without the consumers reading: whenever a Close() call has not returned, a
\* step of Close or of what holds the lock it waits for is possible (a
\* publisher blocked on a full subscriber channel aborts on the shutdown
\* signal).
C7_CloseNeverStuck ==
    (exit # "nil" /\ (closeWaiting > 0 \/ mu \in {"Close", "CloseTail"}))
        => ENABLED ClosePath

\* the state of the router a caller can observe
RouterState == <<running, exit, eventChan, evChans, chans, subscribers, pubs,
                 engines, advertise, table>>

\* C8: a Close() that runs after a Close() has returned returns nil at once,
\* changes nothing of the router and closes no channel a second time.
C8_CloseIdempotent ==
    [][(closeRet.count >= 1 /\ closeWaiting' = closeWaiting - 1)
          => /\ UNCHANGED RouterState
             /\ closeRet'.count = closeRet.count + 1
             /\ mu' = "free"
             /\ ~panicked']_vars

C8_Witness ==
    /\ closeRet.count = 2
    /\ closeRet.branch = "return"
    /\ closeRet.subs = 1
    /\ exit = "closed"
    /\ eventChan # NoChan
    /\ ~evChans[eventChan].closed
    /\ ~panicked

\* C9: when Close() returns on a running router the exit channel is closed,
\* no subscriber is left, every channel Advertise() returned is closed, the
\* event channel is closed and cleared, and running is false.
C9_CloseReleasesAll ==
    [][(mu = "CloseTail" /\ mu' = "free")
          => /\ exit' = "closed"
             /\ subscribers' = {}
             /\ \A c \in 1..Len(chans') : chans'[c].closed
             /\ eventChan' = NoChan
             /\ \A e \in 1..Len(evChans') : evChans'[e].closed
             /\ ~running'
             /\ ~panicked']_vars

C9_Witness ==
    /\ closeRet.branch = "close"
    /\ closeRet.subs = 2
    /\ exit = "closed"
    /\ subscribers = {}
    /\ Len(chans) = 2
    /\ chans[1].closed /\ chans[2].closed
    /\ chans[1].buf # <<>>
    /\ evChans[1].closed
    /\ eventChan = NoChan
    /\ ~running

\* C10: an Advertise() on a router that is not running returns an error,
\* registers no subscriber and starts no engine.
AdvertiseReturned == calls["Advertise"] - (IF mu = "Advertise" THEN 1 ELSE 0)

C10_AdvertiseNeedsRunning ==
    [][(~running /\ AdvertiseReturned' = AdvertiseReturned + 1)
          => /\ advRet'.err # Nil
             /\ subscribers' = subscribers
             /\ engines' = engines
             /\ pubs' = pubs]_vars

\* the goroutines that are inside the loop of advertiseEvents
ActiveLoops == {i \in 1..Len(engines) : engines[i].pc = "loop"}

\* the announce publishers started so far
Announces == {p \in 1..Len(pubs) : pubs[p].type = Announce}

\* C11: on a running router on which no Close() has come to its select, the
\* k Advertise() calls that returned gave k distinct fresh channels, the
\* subscriber set holds exactly those k, the first call alone started the
\* announce and the aggregation goroutine; and never is more than one
\* aggregation loop active.
C11_AdvertiseRegisters ==
    /\ Cardinality(ActiveLoops) <= 1
    /\ (running /\ exit = "open" /\ closeRet.count = 0)
       => /\ Len(chans) = AdvertiseReturned
          /\ subscribers = 1..Len(chans)
          /\ \A c \in 1..Len(chans) : ~chans[c].closed
          /\ Len(engines) = (IF AdvertiseReturned > 0 THEN 1 ELSE 0)
          /\ Cardinality(Announces) = Len(engines)
          /\ Len(evChans) = Len(engines)

C11_Witness ==
    /\ running /\ exit = "open" /\ closeRet.count = 0
    /\ AdvertiseReturned = 2
    /\ subscribers = {1, 2}
    /\ Len(engines) = 1
    /\ engines[1].pc = "loop"
    /\ mu = "free"
(***************************************************************************)
(* Claims about getDomain (SpecDomain).                                    *)
(***************************************************************************)
\* the first available of: the service's "domain", the "domain" of the first
\* node, the literal "default"
DomainByPrecedence(srv) ==
    IF MapHas(srv.Metadata, "domain") /\ MapGet(srv.Metadata, "domain") # ""
    THEN MapGet(srv.Metadata, "domain")
    ELSE IF Len(srv.Nodes) > 0 /\ MapHas(srv.Nodes[1].Metadata, "domain")
    THEN MapGet(srv.Nodes[1].Metadata, "domain")
    ELSE DefaultDomain

\* C12: getDomain returns service.Metadata["domain"] when present and not
\* empty, else Nodes[0].Metadata["domain"] when present, else "default".
C12_DomainPrecedence ==
    dResult # "pending" => dResult = DomainByPrecedence(dSrv)
(***************************************************************************)
(* Claims about manageRoutes (SpecManage).                                 *)
(***************************************************************************)
IsDelete(action) == action \in {"delete", "Delete", "DELETE"}

\* the routes of the service of the result in its resolved domain
ServiceRoutes(t) ==
    {r \in t : r.Service = mRes.Service.Name
               /\ r.Network = getDomain(mRes.Service)}

DeletesOf(r) ==
    {i \in 1..Len(mOut.events) :
        mOut.events[i].Type = Delete /\ mOut.events[i].Route = r}

ProjectedHashes ==
    {Hash(createRoutes(mRes.Service, getDomain(mRes.Service))[i]) :
        i \in 1..Len(mRes.Service.Nodes)}

\* C13: a delete (in any letter case) for a service without nodes calls
\* deleteService(name, domain): every route of the service in the domain is
\* removed with one Delete event each and no other route is touched; any other
\* result does not call deleteService and touches only the projected routes.
C13_DeleteService ==
    (mPc = "done" /\ ~mRes.Service.nil)
    => IF IsDelete(mRes.Action) /\ mRes.Service.Nodes = <<>>
       THEN /\ mOut.wiped = [service |-> mRes.Service.Name,
                             network |-> getDomain(mRes.Service),
                             called |-> TRUE]
            /\ table = mBefore \ ServiceRoutes(mBefore)
            /\ Len(mOut.events) = Cardinality(ServiceRoutes(mBefore))
            /\ \A r \in ServiceRoutes(mBefore) : Cardinality(DeletesOf(r)) = 1
            /\ mOut.err = Nil
       ELSE /\ ~mOut.wiped.called
            /\ \A r \in (table \ mBefore) \cup (mBefore \ table) :
                  Hash(r) \in ProjectedHashes
            /\ \A i \in 1..Len(mOut.events) :
                  Hash(mOut.events[i].Route) \in ProjectedHashes
            /\ mRes.Action \in {"create", "Create", "update"}
                  => \A h \in ProjectedHashes : \E r \in table : Hash(r) = h
            /\ IsDelete(mRes.Action)
                  => \A h \in ProjectedHashes : \A r \in table : Hash(r) # h

C13_Witness ==
    /\ mPc = "done"
    /\ mRes.Action = "DELETE"
    /\ mRes.Service.Name = "cart"
    /\ mRes.Service.Nodes = <<>>
    /\ getDomain(mRes.Service) = "prod"
    /\ Cardinality(ServiceRoutes(mBefore)) = 3
    /\ Len(mOut.events) = 3
    /\ Cardinality(table) = 2
(***************************************************************************)
(* Claims about the refresh and prune loop (SpecSync, SpecSyncFair).       *)
(***************************************************************************)
\* C14: the periodic prune never removes a route whose service every refresh
\* so far got from the registry.
C14_RefreshPinsRoute ==
    [][\A n \in SyncNames :
          (running /\ n \notin missed /\ SyncRoute(n) \in table)
          => SyncRoute(n) \in table']_vars

DeletesFor(n) ==
    {e \in sEvents : e.Type = Delete /\ e.Route = SyncRoute(n)}

\* C15: a loaded route whose service has left the registry is removed by the
\* periodic prune in the end (as long as the router is not closed), with
\* exactly one Delete event, and it does not come back.
C15_PruneRemovesStale ==
    /\ \A n \in SyncNames :
          (SyncRoute(n) \in table /\ reg[n] = "gone")
          ~> (SyncRoute(n) \notin table \/ exit = "closed")
    /\ [][\A n \in SyncNames :
            /\ (SyncRoute(n) \in table /\ SyncRoute(n) \notin table')
                  => Cardinality({e \in sEvents' : e.Type = Delete
                                     /\ e.Route = SyncRoute(n)}) = 1
            /\ (SyncRoute(n) \notin table /\ reg[n] = "gone")
                  => SyncRoute(n) \notin table']_vars

C15_Witness ==
    /\ running
    /\ reg["cart"] = "gone"
    /\ SyncRoute("cart") \notin table
    /\ Cardinality(DeletesFor("cart")) = 1
    /\ SyncRoute("auth") \in table


(***************************************************************************)
(* Claims about the registry watch loop (SpecWatch).                       *)
(***************************************************************************)
NoWatcher == rw # "open" /\ exit # "closed"
Reopened(g) == gen # g \/ exit = "closed"

\* the loop reopens whenever it has no open watcher
WatchReopens == NoWatcher ~> (rw = "open" \/ exit = "closed")

\* a reinit signal makes the loop open another watcher
ReinitReopens ==
    \A g \in 0..2 : (initPending > 0 /\ gen = g /\ exit # "closed") ~> Reopened(g)

\* the errors of the watch loop are logged and change nothing that a public
\* operation returns
WatchErrorsStayInside ==
    [][wlErr' # wlErr => UNCHANGED <<running, exit, advRet, closeRet, panicked>>]_vars

\* C16: while the router is running, a failure to open the registry watcher,
\* a watcher that ends with an error or with a clean stop, and a reinit signal
\* of Init() each lead to a newly opened registry watcher; and no error of the
\* watch loop reaches a caller of a public operation.
C16_WatchLoopReopens ==
    /\ WatchReopens
    /\ ReinitReopens
    /\ WatchErrorsStayInside


(***************************************************************************)
(* Claims about Close() against the sending goroutines (Spec).             *)
(***************************************************************************)
\* the forwarder never sends on the closed event channel
NoSendOnClosedEventChan == \A i \in 1..Len(engines) : engines[i].fwd # "panic"

\* a publisher inside its loop has only open subscriber channels before it
NoSendOnClosedSubscriber ==
    \A p \in 1..Len(pubs) :
        pubs[p].pc = "loop" =>
            \A k \in 1..Len(pubs[p].rem) : ~chans[pubs[p].rem[k]].closed

\* C20: under every interleaving of Close() with the forwarder of watchTable,
\* the aggregation loop and publishAdvert, no goroutine sends on a closed
\* channel: not on the event channel Close() closes and clears, and not on a
\* subscriber channel Close() closes.
C20_NoSendOnClosed ==
    /\ NoSendOnClosedEventChan
    /\ NoSendOnClosedSubscriber


(***************************************************************************)
(* Claims about the advertise strategy and the tick (Spec).                *)
(***************************************************************************)
\* the publishers a step starts
Started == {p \in 1..Len(pubs') : p > Len(pubs)}

\* the aggregation-map keys a step adds to engine i
Added(i) == (DOMAIN engines'[i].adverts) \ (DOMAIN engines[i].adverts)

\* no Update advert starts, and no event enters the map, under AdvertiseNone
NoneBlocks ==
    [][advertise' = AdvertiseNone =>
          /\ \A p \in Started : pubs'[p].type # RouteUpdate
          /\ \A i \in 1..Len(engines) : Added(i) = {}]_vars

\* under AdvertiseLocal only link-local events enter the map or an Update advert
LocalBlocks ==
    [][advertise' = AdvertiseLocal =>
          /\ \A p \in Started :
                pubs'[p].type = RouteUpdate =>
                    \A e \in pubs'[p].events : e.Route.Link = "local"
          /\ \A i \in 1..Len(engines) :
                \A k \in Added(i) : engines'[i].adverts[k].Route.Link = "local"]_vars

\* C18: the strategy in force bounds what is advertised.  While it is
\* AdvertiseNone no Update advert is published and no table event is added to
\* the aggregation map; while it is AdvertiseLocal no event with a link other
\* than "local" is added to the map or put into a published advert, also when
\* Init() changed the strategy while entries were pending.
C18_StrategyBounds ==
    /\ NoneBlocks
    /\ LocalBlocks


Updates == {p \in 1..Len(pubs) : pubs[p].type = RouteUpdate}

\* a tick moves the entries it collects from the map to one new Update advert
\* and leaves the others as they were
DrainMoves ==
    [][\A i \in 1..Len(engines) :
          (engines[i].pc = "drain" /\ engines'[i].pc = "loop") =>
              LET before == engines[i].adverts
                  after == engines'[i].adverts
                  gone == (DOMAIN before) \ (DOMAIN after)
              IN  /\ DOMAIN after \subseteq DOMAIN before
                  /\ \A k \in DOMAIN after : after[k] = before[k]
                  /\ IF gone = {} THEN Started = {}
                     ELSE /\ Started = {Len(pubs')}
                          /\ pubs'[Len(pubs')].type = RouteUpdate
                          /\ pubs'[Len(pubs')].events = {before[k] : k \in gone}]_vars

\* an Update advert is not empty and carries the id of this router; no event
\* is in two Update adverts
UpdateAdverts ==
    /\ \A p \in Updates : pubs[p].events # {} /\ pubs[p].id = SelfId
    /\ \A p, q \in Updates : p # q => pubs[p].events \cap pubs[q].events = {}

\* an Update publisher starts its range over every subscriber, once each; and
\* without the shutdown signal it goes on only by sending the advert to the
\* next subscriber of its range, up to the last
DeliveredToAll ==
    [][\A p \in Updates :
          /\ (pubs[p].pc = "start" /\ pubs'[p].pc # "start")
                => /\ pubs'[p].rem \in Orders(subscribers)
                   /\ pubs'[p].pc = "done" <=> subscribers = {}
          /\ (pubs[p].pc = "loop" /\ pubs'[p] # pubs[p] /\ exit # "closed")
                => LET sub == Head(pubs[p].rem) IN
                   /\ chans'[sub].buf = Append(chans[sub].buf, p)
                   /\ ~chans[sub].closed
                   /\ pubs'[p].rem = Tail(pubs[p].rem)
                   /\ pubs'[p].pc = "done" <=> Tail(pubs[p].rem) = <<>>]_vars

\* C19: on a tick every map entry put into the outbound list is deleted from
\* the map and the skipped entries stay, so a pending event is advertised in
\* at most one Update advert; an Update advert is published only for a
\* non-empty list, with Type Update and the id of this router, and without a
\* shutdown it is delivered to every subscriber registered when it is
\* published.
C19_DrainAndPublish ==
    /\ DrainMoves
    /\ []UpdateAdverts
    /\ DeliveredToAll

C19_Witness ==
    /\ nTicks = 2
    /\ exit = "open"
    /\ subscribers = {1, 2}
    /\ \E p \in Updates :
         /\ pubs[p].pc = "done"
         /\ chans[1].buf = <<p>>
         /\ chans[2].buf = <<p>>
         /\ Updates = {p}
    /\ \A i \in 1..Len(engines) :
         engines[i].pc = "loop" /\ DOMAIN engines[i].adverts = {}


(***************************************************************************)
(* Claims about the shutdown (SpecShutdown).                               *)
(***************************************************************************)
CloseReturned == closeRet.count > 0 /\ closeRet.branch = "close"

RefreshLoopOver == syncPc = "done"

\* the loop has returned, no stopper goroutine is left and no registry watcher
\* is open
RegistryWatchOver ==
    /\ wlPc = "done"
    /\ stopper \in {"none", "done"}
    /\ stale = 0
    /\ rw # "open"

\* the goroutine of Advertise has returned and the forwarder has ended (by
\* its return or by a panic of the process); its table watcher is stopped
EnginesOver ==
    \A i \in 1..Len(engines) :
        /\ engines[i].pc = "done"
        /\ engines[i].fwd \in {"none", "done", "panic"}

PublishersOver == \A p \in 1..Len(pubs) : pubs[p].pc = "done"

AllOver ==
    /\ RefreshLoopOver
    /\ RegistryWatchOver
    /\ EnginesOver
    /\ PublishersOver

\* C17: closing the exit channel cancels every long-lived context.  After
\* Close() has returned, the refresh/prune loop, the registry watch loop with
\* its stopper goroutines, the forwarder of the table watcher, the aggregation
\* loop and every publishAdvert in flight end, and no registry or table
\* watcher opened around the shutdown stays open (w.Next() of a stopped
\* watcher is assumed to return).
C17_CloseCancelsAll == [](CloseReturned => <>[]AllOver)

C17_Witness ==
    /\ CloseReturned
    /\ AllOver
    /\ Len(engines) = 1
    /\ engines[1].fwd = "done"
    /\ Len(pubs) = 2
    /\ gen = 2


\* C21: with the Gateway option set, the default gateway route installed by
\* start() is in the table in every state in which the router is running,
\* whatever number of prune and refresh ticks have run
C21_GatewayRouteStays ==
    (gateway # "" /\ running) => GatewayRoute(gateway) \in table

\* the router runs with a gateway configured and a prune tick has removed the
\* default gateway route
C21_GatewayRoutePruned ==
    /\ gateway # ""
    /\ running
    /\ syncPc = "loop"
    /\ GatewayRoute(gateway) \notin table
    /\ \E e \in sEvents : e.Type = Delete /\ e.Route = GatewayRoute(gateway)


\* the first Advertise() took its snapshot and a table mutation was accepted
\* after it, with strategy AdvertiseAll throughout and no shutdown
MutationAfterSnapshot ==
    /\ advertise = AdvertiseAll
    /\ calls["Init"] = 0
    /\ calls["Close"] = 0
    /\ nMut > 0
    /\ pubs # <<>>
    /\ pubs[1].type = Announce
    /\ \A e \in pubs[1].events : e.Timestamp < nMut

\* the event of that mutation is with the table watcher, with the forwarder
\* or in the aggregation map of the engine
MutationPending ==
    \E i \in 1..Len(engines) :
        \/ \E k \in 1..Len(engines[i].wbuf) : engines[i].wbuf[k].Timestamp = nMut
        \/ engines[i].held.Timestamp = nMut
        \/ \E h \in DOMAIN engines[i].adverts :
               engines[i].adverts[h].Timestamp = nMut

\* the event of that mutation is in an Update advert
MutationPublished ==
    \E p \in 1..Len(pubs) :
        /\ pubs[p].type = RouteUpdate
        /\ \E e \in pubs[p].events : e.Timestamp = nMut

\* C22: no table change is lost between the announce snapshot and the event
\* stream: with strategy AdvertiseAll and no shutdown, a table mutation
\* accepted after the first Advertise() took its snapshot is in an Update
\* advert, or on its way to one (held by the table watcher, the forwarder or
\* the aggregation map), whatever the order of the mutation and the start of
\* the engine's table watcher
C22_NoTableChangeLost ==
    MutationAfterSnapshot => (MutationPending \/ MutationPublished)

\* the mutation came between the snapshot of Advertise() and r.Watch() of the
\* engine; the engine runs, it has ticked, and the event is nowhere
C22_MutationLost ==
    /\ MutationAfterSnapshot
    /\ ~MutationPending
    /\ ~MutationPublished
    /\ engines[1].pc = "loop"
    /\ engines[1].fwd = "next"
    /\ nTicks = Caps.Tick


\* advert q is still to be sent to subscriber c: its publisher has not begun
\* its range over the subscribers, or c is among those left in the range
ToSend(q, c) ==
    \/ pubs[q].pc = "start"
    \/ /\ pubs[q].pc = "loop"
       /\ \E j \in 1..Len(pubs[q].rem) : pubs[q].rem[j] = c

\* C23: each subscriber receives the adverts in the order in which they were
\* produced, the Announce first and then the Update adverts in tick order:
\* when an advert is in a subscriber's channel, no advert produced before it
\* is still to be sent to that subscriber
C23_AdvertsInOrder ==
    \A c \in 1..Len(chans) :
        \A k \in 1..Len(chans[c].buf) :
            \A q \in 1..(chans[c].buf[k] - 1) : ~ToSend(q, c)

\* the Update advert of the second tick (the Create of a route) has been sent
\* and read; the Update advert of the first tick (the Delete of that route)
\* comes after it
C23_UpdatesSwapped ==
    /\ Len(pubs) = 3
    /\ pubs[1].pc = "done"
    /\ pubs[3].pc = "done"
    /\ chans[1].first = Announce
    /\ chans[1].buf = <<2>>
    /\ \E e \in pubs[2].events, f \in pubs[3].events :
          /\ Hash(e.Route) = Hash(f.Route)
          /\ e.Type = Delete
          /\ f.Type = Create
          /\ e.Timestamp < f.Timestamp
    /\ \E f \in pubs[3].events : f.Route \in table

====
